---- MODULE Spec2Model ----
(***************************************************************************)
(* nmos-rs node: NodeBuilder::build populates the resource model with the  *)
(* node's own Node, Device and Receiver; Node::start spawns the mDNS       *)
(* polling thread, drains its event channel into a heap of registries and  *)
(* serves HTTP until either branch of its select completes.                *)
(***************************************************************************)
EXTENDS Integers, Sequences, FiniteSets, TLC

\* ------------------------------------------------------------------ bounds

\* Number of events the listener sends on the channel in one run.
MaxEvents == 3

\* Service names seen on the network.
Names == {"A", "B"}

\* Values Uuid::new_v4() may return.
Uuids == {"u1", "u2"}

\* Values TaiTime::now() may return.
Times == {"t1", "t2"}

\* Calls of DeviceBuilder::label on one builder.
MaxLabels == 2

\* Length of a Device's senders and receivers lists.
MaxRefs == 2

\* Labels and device types a caller passes.
Labels == {"", "cam"}
Types == {"devicetype", "urn:x-nmos:device:generic"}

\* ------------------------------------------------------------- event values

NoName == "-"
NoTxt == "-"

\* TXT records of a resolved service: a numeric priority, or none.
Txts == {"pri=5", "pri=10", "nopri"}

\* NmosMdnsEvent values the poller sends: only Discovery(_, Ok(_)) is named
\* by the consumer, every other value takes the same path through it.
Events ==
    [kind : {"Found", "Lost"}, name : Names, txt : {NoTxt}]
        \cup [kind : {"Resolved"}, name : Names, txt : Txts]
        \cup [kind : {"ResolveErr", "Error"}, name : {NoName}, txt : {NoTxt}]

\* Option::None as pushed on the heap when parse yields no registry.
NoRegistry == [some |-> FALSE, name |-> NoName, pri |-> 0]

\* The unsigned integer a TXT priority attribute denotes.
ParsePri(txt) ==
    CASE txt = "pri=5" -> 5
      [] txt = "pri=10" -> 10
      [] OTHER -> 0

\* NmosMdnsRegistry::parse: a registry keyed by service name, or none when the
\* priority attribute is missing.
Parse(discovery) ==
    IF discovery.txt \in {"pri=5", "pri=10"}
    THEN [some |-> TRUE, name |-> discovery.name, pri |-> ParsePri(discovery.txt)]
    ELSE NoRegistry

\* ------------------------------------------------------------------- state

VARIABLES
    build_pc,     \* position in NodeBuilder::build
    node,         \* build's local `node`
    device,       \* build's local `device`
    receiver,     \* build's local `receiver`
    nodes,        \* Model: the Node records held
    devices,      \* Model: the Device records held
    receivers,    \* Model: the Receiver records held
    start_pc,     \* position in Node::start
    mdns_pc,      \* position of the mdns thread
    chan,         \* the unbounded channel's queue
    emitted,      \* every event sent on the channel, in send order
    processed,    \* every event rx.recv() returned, in receive order
    registries,   \* the BinaryHeap's entries, in push order
    published,    \* selections handed to the registration collaborator
    ended,        \* the branch of start's select that completed
    start_result  \* what Node::start returned

\* A caller of the Device builder and of Device::to_json, on its own.
VARIABLES
    b_pc,         \* position of the caller
    b_node,       \* the Node passed to DeviceBuilder::new
    b_type,       \* the device type passed to DeviceBuilder::new
    b_labels,     \* the labels passed to DeviceBuilder::label, in call order
    builder,      \* the DeviceBuilder
    built,        \* the Device
    json,         \* the DeviceJson to_json returned
    parsed        \* the DeviceJson read back from the serialized json

devVars == <<b_pc, b_node, b_type, b_labels, builder, built, json, parsed>>

vars == <<build_pc, node, device, receiver, nodes, devices, receivers,
          start_pc, mdns_pc, chan, emitted, processed, registries, published,
          ended, start_result, devVars>>

buildVars == <<build_pc, node, device, receiver, nodes, devices, receivers>>
startVars == <<start_pc, mdns_pc, chan, emitted, processed, registries, published,
               ended, start_result>>

NoResource == [id |-> "-"]

\* ---------------------------------------------------------------- builders

\* resource::NodeBuilder::new(label).build()
NodeBuilderBuild(label, id) == [id |-> id, label |-> label]

\* A builder that forgets the parent: node_id is the nil Uuid.
DeviceBuilderNewNilParent(n, device_type) ==
    [label |-> <<>>, type_ |-> device_type, node_id |-> "nil"]

\* DeviceBuilder::new(node, device_type)
DeviceBuilderNew(n, device_type) ==
    [label |-> <<>>, type_ |-> device_type, node_id |-> n.id]

\* A label that does not replace one set before.
DeviceBuilderLabelKeepsFirst(b, label) ==
    IF b.label = <<>> THEN [b EXCEPT !.label = <<label>>] ELSE b

\* DeviceBuilder::label(label)
DeviceBuilderLabel(b, label) == [b EXCEPT !.label = <<label>>]

\* DeviceBuilder::build(): id from Uuid::new_v4(), version from TaiTime::now(),
\* label.unwrap_or(String::new())
DeviceBuilderBuild(b, id, now) ==
    [id |-> id,
     version |-> now,
     label |-> IF b.label = <<>> THEN "" ELSE b.label[1],
     type_ |-> b.type_,
     node_id |-> b.node_id,
     senders |-> <<>>,
     receivers |-> <<>>]

\* resource::ReceiverBuilder::new(device, format, transport).build()
ReceiverBuilderBuild(d, format, transport, id) ==
    [id |-> id, label |-> "", format |-> format, transport |-> transport,
     device_id |-> d.id]

\* ------------------------------------------------------------------- model

Ids(map) == {r.id : r \in map}

\* HashMap::insert: the record replaces one of the same id.
Put(map, r) == {x \in map : x.id # r.id} \cup {r}

\* Model::insert_node
InsertNodeInto(map, n) == Put(map, n)

\* Model::insert_device: refused when the parent Node is absent.
InsertDeviceInto(map, d, parents) ==
    IF d.node_id \in Ids(parents) THEN Put(map, d) ELSE map

\* Model::insert_receiver: refused when the parent Device is absent.
InsertReceiverInto(map, r, parents) ==
    IF r.device_id \in Ids(parents) THEN Put(map, r) ELSE map

\* -------------------------------------------------------------------- Init

NoBuilder == [label |-> <<>>, type_ |-> "-", node_id |-> "-"]
NoJson == <<>>

\* The state before NodeBuilder::build.
NodeIdle ==
    /\ build_pc = "new"
    /\ node = NoResource
    /\ device = NoResource
    /\ receiver = NoResource
    /\ nodes = {}
    /\ devices = {}
    /\ receivers = {}
    /\ start_pc = "idle"
    /\ mdns_pc = "unspawned"
    /\ chan = <<>>
    /\ emitted = <<>>
    /\ processed = <<>>
    /\ registries = <<>>
    /\ published = <<>>
    /\ ended = "none"
    /\ start_result = "none"

\* The node process, with no separate caller of the builder.
Init ==
    /\ NodeIdle
    /\ b_pc = "off"
    /\ b_node = NoResource
    /\ b_type = "-"
    /\ b_labels = <<>>
    /\ builder = NoBuilder
    /\ built = NoResource
    /\ json = NoJson
    /\ parsed = NoJson

\* ------------------------------------------------------- NodeBuilder::build

BuildNode ==
    /\ build_pc = "new"
    /\ \E id \in Uuids : node' = NodeBuilderBuild("Test", id)
    /\ build_pc' = "node_built"
    /\ UNCHANGED <<device, receiver, nodes, devices, receivers>>
    /\ UNCHANGED startVars
    /\ UNCHANGED devVars

\* A build that also puts the Device into the model.
BuildDeviceAndInsert ==
    /\ build_pc = "node_built"
    /\ \E id \in Uuids, now \in Times :
          /\ device' = DeviceBuilderBuild(DeviceBuilderNew(node, "devicetype"), id, now)
          /\ devices' = Put(devices, device')
    /\ build_pc' = "device_built"
    /\ UNCHANGED <<node, receiver, nodes, receivers>>
    /\ UNCHANGED startVars
    /\ UNCHANGED devVars

BuildDevice ==
    /\ build_pc = "node_built"
    /\ \E id \in Uuids, now \in Times :
          device' = DeviceBuilderBuild(DeviceBuilderNew(node, "devicetype"), id, now)
    /\ build_pc' = "device_built"
    /\ UNCHANGED <<node, receiver, nodes, devices, receivers>>
    /\ UNCHANGED startVars
    /\ UNCHANGED devVars

BuildReceiver ==
    /\ build_pc = "device_built"
    /\ \E id \in Uuids :
          receiver' = ReceiverBuilderBuild(device, "Video", "RtpMulticast", id)
    /\ build_pc' = "receiver_built"
    /\ UNCHANGED <<node, device, nodes, devices, receivers>>
    /\ UNCHANGED startVars
    /\ UNCHANGED devVars

InsertNode ==
    /\ build_pc = "receiver_built"
    /\ nodes' = InsertNodeInto(nodes, node)
    /\ build_pc' = "node_inserted"
    /\ UNCHANGED <<node, device, receiver, devices, receivers>>
    /\ UNCHANGED startVars
    /\ UNCHANGED devVars

InsertDevice ==
    /\ build_pc = "node_inserted"
    /\ devices' = InsertDeviceInto(devices, device, nodes)
    /\ build_pc' = "device_inserted"
    /\ UNCHANGED <<node, device, receiver, nodes, receivers>>
    /\ UNCHANGED startVars
    /\ UNCHANGED devVars

InsertReceiver ==
    /\ build_pc = "device_inserted"
    /\ receivers' = InsertReceiverInto(receivers, receiver, devices)
    /\ build_pc' = "built"
    /\ UNCHANGED <<node, device, receiver, nodes, devices>>
    /\ UNCHANGED startVars
    /\ UNCHANGED devVars

\* ------------------------------------------------------------- Node::start

\* A start that does not wait for build's inserts.
StartBeforePopulated == build_pc \in {"receiver_built", "node_inserted", "device_inserted", "built"}

\* start(self) takes the Node that build returned.
StartEnabled == build_pc = "built"

\* Lines 85-102: the channel is created and the mdns thread spawned.
Start ==
    /\ StartEnabled
    /\ start_pc = "idle"
    /\ start_pc' = "select"
    /\ mdns_pc' = "init"
    /\ UNCHANGED <<chan, emitted, processed, registries, published, ended, start_result>>
    /\ UNCHANGED buildVars
    /\ UNCHANGED devVars

\* Lines 93-95: MdnsContext::new and context.start() on the mdns thread.
MdnsInit ==
    /\ mdns_pc = "init"
    /\ mdns_pc' = "poll"
    /\ UNCHANGED <<start_pc, chan, emitted, processed, registries, published, ended, start_result>>
    /\ UNCHANGED buildVars
    /\ UNCHANGED devVars

\* Line 99: poller.poll() sends what it saw while the receiver is alive; a
\* send after the receiver was dropped is lost.
MdnsPoll ==
    /\ mdns_pc = "poll"
    /\ mdns_pc' = "sleep"
    /\ \/ UNCHANGED <<chan, emitted>>
       \/ /\ start_pc = "select"
          /\ Len(emitted) < MaxEvents
          /\ \E e \in Events :
                /\ chan' = Append(chan, e)
                /\ emitted' = Append(emitted, e)
    /\ UNCHANGED <<start_pc, processed, registries, published, ended, start_result>>
    /\ UNCHANGED buildVars
    /\ UNCHANGED devVars

\* Line 100: thread::sleep, then the loop's next iteration.
MdnsSleep ==
    /\ mdns_pc = "sleep"
    /\ mdns_pc' = "poll"
    /\ UNCHANGED <<start_pc, chan, emitted, processed, registries, published, ended, start_result>>
    /\ UNCHANGED buildVars
    /\ UNCHANGED devVars

\* Lines 91-95: MdnsContext::new or context.start panics and the thread's
\* closure unwinds before its loop; the channel's only sender is dropped. A
\* failed poll is an event on the channel, not an exit of the loop.
MdnsSetupFails ==
    /\ mdns_pc = "init"
    /\ mdns_pc' = "dead"
    /\ UNCHANGED <<start_pc, chan, emitted, processed, registries, published, ended, start_result>>
    /\ UNCHANGED buildVars
    /\ UNCHANGED devVars

\* A receive that takes the newest queued event.
RecvNewest(ch) == Len(ch)

\* rx.recv(): the oldest queued event.
RecvIndex(ch) == 1

RemoveAt(s, i) == SubSeq(s, 1, i - 1) \o SubSeq(s, i + 1, Len(s))

\* A body that pushes only what the parser accepted.
HandleParsedOnly(regs, event) ==
    IF event.kind = "Resolved" /\ Parse(event).some
    THEN Append(regs, Parse(event))
    ELSE regs

\* Lines 108-111: the body of the consumer's loop.
Handle(regs, event) ==
    IF event.kind = "Resolved" THEN Append(regs, Parse(event)) ELSE regs

\* A consumer that leaves its loop on a failed poll or resolve.
ConsumerStopsOnError(event) == event.kind \notin {"Error", "ResolveErr"}

\* Line 107: `while let Some(event)` goes on for every event received.
ConsumerContinues(event) == TRUE

\* Lines 106-113, polled by the select: one iteration of the consumer.
Recv ==
    /\ start_pc = "select"
    /\ chan # <<>>
    /\ LET i == RecvIndex(chan)
           event == chan[i]
       IN  /\ chan' = IF ConsumerContinues(event) THEN RemoveAt(chan, i) ELSE <<>>
           /\ processed' = Append(processed, event)
           /\ registries' = Handle(registries, event)
           /\ start_pc' = IF ConsumerContinues(event) THEN "select" ELSE "done"
    /\ UNCHANGED <<mdns_pc, emitted, published, ended, start_result>>
    /\ UNCHANGED buildVars
    /\ UNCHANGED devVars

\* A select whose server branch hands the server's error to the caller.
StartResultFromServer(outcome) == IF outcome = "err" THEN "Err" ELSE "Ok"

\* Lines 127-132: both branches of the select are `=> {}`, then Ok(()).
StartResult(outcome) == "Ok"

\* How the server future may complete: hyper's Result<(), Error>.
ServerOutcomes == {"ok", "err"}

\* Lines 107 and 127-128: with the sender dropped and the queue drained
\* rx.recv() returns None, the while loop and the consumer's future end, the
\* select returns and start returns Ok(()).
ConsumerEnds ==
    /\ start_pc = "select"
    /\ chan = <<>>
    /\ mdns_pc = "dead"
    /\ start_pc' = "done"
    /\ ended' = "consumer"
    /\ start_result' = StartResult("ok")
    /\ UNCHANGED <<mdns_pc, chan, emitted, processed, registries, published>>
    /\ UNCHANGED buildVars
    /\ UNCHANGED devVars

\* Lines 127-132: the server future completes, the select returns and start
\* returns Ok(()); rx is dropped with whatever is still queued.
ServerEnds ==
    /\ start_pc = "select"
    /\ start_pc' = "done"
    /\ chan' = <<>>
    /\ \E outcome \in ServerOutcomes :
          /\ ended' = "server"
          /\ start_result' = StartResult(outcome)
    /\ UNCHANGED <<mdns_pc, emitted, processed, registries, published>>
    /\ UNCHANGED buildVars
    /\ UNCHANGED devVars

Next ==
    \/ BuildNode
    \/ BuildDevice
    \/ BuildReceiver
    \/ InsertNode
    \/ InsertDevice
    \/ InsertReceiver
    \/ Start
    \/ MdnsInit
    \/ MdnsPoll
    \/ MdnsSleep
    \/ MdnsSetupFails
    \/ Recv
    \/ ConsumerEnds
    \/ ServerEnds

Spec == Init /\ [][Next]_vars

\* The operating system schedules the mdns thread and the runtime polls the
\* consumer: neither is starved.
FairSpec == Spec /\ WF_vars(MdnsInit) /\ WF_vars(MdnsPoll) /\ WF_vars(MdnsSleep) /\ WF_vars(Recv)

\* ------------------------------------------------- Device builder, to_json

\* Uuid's Display: the lowercase hyphenated form.
UuidToString(u) ==
    CASE u = "u1" -> "00000000-0000-4000-8000-000000000001"
      [] u = "u2" -> "00000000-0000-4000-8000-000000000002"
      [] OTHER -> "00000000-0000-0000-0000-000000000000"

\* Uuid::parse_str: the Uuid a hyphenated string denotes.
UuidParse(s) ==
    IF \E u \in Uuids : UuidToString(u) = s
    THEN CHOOSE u \in Uuids : UuidToString(u) = s
    ELSE "-"

\* TaiTime's Display: "<seconds>:<nanoseconds>".
TaiToString(t) ==
    CASE t = "t1" -> "1667433600:0"
      [] t = "t2" -> "1667433600:500"
      [] OTHER -> "0:0"

MapToString(ids) == [i \in 1..Len(ids) |-> UuidToString(ids[i])]

\* A to_json that fills senders from receivers and receivers from senders.
ToJsonSwapped(d) ==
    [id |-> UuidToString(d.id),
     version |-> TaiToString(d.version),
     label |-> d.label,
     type_ |-> d.type_,
     node_id |-> UuidToString(d.node_id),
     senders |-> MapToString(d.receivers),
     receivers |-> MapToString(d.senders)]

\* <Device as Resource>::to_json
ToJson(d) ==
    [id |-> UuidToString(d.id),
     version |-> TaiToString(d.version),
     label |-> d.label,
     type_ |-> d.type_,
     node_id |-> UuidToString(d.node_id),
     senders |-> MapToString(d.senders),
     receivers |-> MapToString(d.receivers)]

\* DeviceJson serialized: the JSON object's members, by the schema's names.
Serialize(j) ==
    << <<"id", j.id>>, <<"version", j.version>>, <<"label", j.label>>,
       <<"type", j.type_>>, <<"node_id", j.node_id>>,
       <<"senders", j.senders>>, <<"receivers", j.receivers>> >>

Member(obj, key) == obj[CHOOSE i \in 1..Len(obj) : obj[i][1] = key][2]

\* DeviceJson deserialized from a JSON object.
Deserialize(obj) ==
    [id |-> Member(obj, "id"),
     version |-> Member(obj, "version"),
     label |-> Member(obj, "label"),
     type_ |-> Member(obj, "type"),
     node_id |-> Member(obj, "node_id"),
     senders |-> Member(obj, "senders"),
     receivers |-> Member(obj, "receivers")]

RefLists == UNION {[1..n -> Uuids] : n \in 0..MaxRefs}

\* Every Device value: all of its fields are public.
AllDevices ==
    [id : Uuids, version : Times, label : Labels, type_ : Types,
     node_id : Uuids, senders : RefLists, receivers : RefLists]

\* A caller about to use the builder, or one holding some Device.
InitDevice ==
    /\ NodeIdle
    /\ b_labels = <<>>
    /\ builder = NoBuilder
    /\ json = NoJson
    /\ parsed = NoJson
    /\ \/ /\ b_pc = "args"
          /\ b_node \in {NodeBuilderBuild("Test", id) : id \in Uuids}
          /\ b_type \in Types
          /\ built = NoResource
       \/ /\ b_pc = "device"
          /\ b_node = NoResource
          /\ b_type = "-"
          /\ built \in AllDevices

\* DeviceBuilder::new(&node, device_type)
DevNew ==
    /\ b_pc = "args"
    /\ builder' = DeviceBuilderNew(b_node, b_type)
    /\ b_pc' = "builder"
    /\ UNCHANGED <<b_node, b_type, b_labels, built, json, parsed>>
    /\ UNCHANGED <<buildVars, startVars>>

\* .label(label), any number of times
DevLabel ==
    /\ b_pc = "builder"
    /\ Len(b_labels) < MaxLabels
    /\ \E l \in Labels :
          /\ builder' = DeviceBuilderLabel(builder, l)
          /\ b_labels' = Append(b_labels, l)
    /\ UNCHANGED <<b_pc, b_node, b_type, built, json, parsed>>
    /\ UNCHANGED <<buildVars, startVars>>

\* .build()
DevBuild ==
    /\ b_pc = "builder"
    /\ \E id \in Uuids, now \in Times :
          built' = DeviceBuilderBuild(builder, id, now)
    /\ b_pc' = "device"
    /\ UNCHANGED <<b_node, b_type, b_labels, builder, json, parsed>>
    /\ UNCHANGED <<buildVars, startVars>>

\* device.to_json()
DevToJson ==
    /\ b_pc = "device"
    /\ json' = ToJson(built)
    /\ b_pc' = "json"
    /\ UNCHANGED <<b_node, b_type, b_labels, builder, built, parsed>>
    /\ UNCHANGED <<buildVars, startVars>>

\* The projection is written out and read back.
DevReadBack ==
    /\ b_pc = "json"
    /\ parsed' = Deserialize(Serialize(json))
    /\ b_pc' = "parsed"
    /\ UNCHANGED <<b_node, b_type, b_labels, builder, built, json>>
    /\ UNCHANGED <<buildVars, startVars>>

NextDevice ==
    \/ DevNew
    \/ DevLabel
    \/ DevBuild
    \/ DevToJson
    \/ DevReadBack

SpecDevice == InitDevice /\ [][NextDevice]_vars

\* ------------------------------------------------------- selection ordering

SomeIdx(regs) == {i \in 1..Len(regs) : regs[i].some}

\* BinaryHeap::peek under the registries' ordering: the entry of the lowest
\* priority number, the earliest pushed among equals; none for a heap that
\* holds no registry.
Peek(regs) ==
    IF SomeIdx(regs) = {} THEN NoRegistry
    ELSE regs[CHOOSE i \in SomeIdx(regs) :
                 \A j \in SomeIdx(regs) :
                    \/ regs[i].pri < regs[j].pri
                    \/ (regs[i].pri = regs[j].pri /\ i <= j)]

\* The candidate the heap offers as the active registry.
Active == Peek(registries)

\* ----------------------------------------------------------------- claims

Last(s) == s[Len(s)]
Front(s) == SubSeq(s, 1, Len(s) - 1)

\* The step in which the consumer takes one event off the channel.
Processes(kinds) ==
    /\ Len(processed') = Len(processed) + 1
    /\ Last(processed').kind \in kinds

IndexOfName(cands, n) == {i \in 1..Len(cands) : cands[i].name = n}

RECURSIVE LiveAfter(_)
\* The candidates live after a log of events, in discovery order: a Resolved
\* that parses adds its service or replaces it in place, a Lost removes it.
LiveAfter(log) ==
    IF log = <<>> THEN <<>>
    ELSE LET prev == LiveAfter(Front(log))
             e == Last(log)
         IN  IF e.kind = "Resolved" /\ Parse(e).some
             THEN IF IndexOfName(prev, e.name) = {}
                  THEN Append(prev, Parse(e))
                  ELSE [i \in 1..Len(prev) |->
                           IF prev[i].name = e.name THEN Parse(e) ELSE prev[i]]
             ELSE IF e.kind = "Lost"
             THEN SelectSeq(prev, LAMBDA c : c.name # e.name)
             ELSE prev

\* C1: after any processed sequence of Resolved and Lost events the active
\* candidate is the best live candidate (lowest priority number, earliest
\* discovered among equals), and none exactly when no candidate is live.
C1_ActiveIsBestLive == Active = Peek(LiveAfter(processed))

\* C2: processing a Lost for the active candidate removes it from the
\* collection and makes the next-best remaining candidate active (none when
\* nothing remains); the lost candidate is not present afterwards.
C2_LostActiveRemoved ==
    [][(Processes({"Lost"}) /\ Active.some /\ Last(processed').name = Active.name)
         => /\ \A i \in SomeIdx(registries') :
                  registries'[i].name # Last(processed').name
            /\ Active' = Peek(LiveAfter(processed'))]_vars

\* The latest event of the log that resolved service n to a registry.
LatestResolved(log, n) ==
    CHOOSE k \in 1..Len(log) :
        /\ log[k].kind = "Resolved" /\ Parse(log[k]).some /\ log[k].name = n
        /\ \A m \in (k + 1)..Len(log) :
              ~(log[m].kind = "Resolved" /\ Parse(log[m]).some /\ log[m].name = n)

\* C3: the collection holds at most one candidate per service name, and each
\* candidate carries the priority of the latest resolution of its name.
C3_OnePerServiceName ==
    /\ \A i, j \in SomeIdx(registries) :
          registries[i].name = registries[j].name => i = j
    /\ \A i \in SomeIdx(registries) :
          registries[i] = Parse(processed[LatestResolved(processed, registries[i].name)])

\* C4: processing a resolved service that the parser rejects adds nothing to
\* the collection, and the consumer goes on to the next event.
C4_RejectedNotInserted ==
    [][(Processes({"Resolved"}) /\ ~Parse(Last(processed')).some)
         => (registries' = registries /\ start_pc' = "select")]_vars

\* C5: every step that changes the active candidate publishes the new
\* selection (or the absence of one) to the registration collaborator.
C5_ChangePublished ==
    [][(Active' # Active)
         => (published' = Append(published, Active'))]_vars

\* C6: every Device in the model references a Node in the model and every
\* Receiver a Device in the model, and build's inserts run parent first: each
\* insert build has passed put its resource into the model.
C6_NoDanglingParent ==
    /\ \A d \in devices : d.node_id \in Ids(nodes)
    /\ \A r \in receivers : r.device_id \in Ids(devices)
    /\ build_pc \in {"node_inserted", "device_inserted", "built"} => node \in nodes
    /\ build_pc \in {"device_inserted", "built"} => device \in devices
    /\ build_pc = "built" => receiver \in receivers

C6_Witness ==
    /\ build_pc = "built"
    /\ \E d \in devices : d.node_id = node.id
    /\ \E r \in receivers : r.device_id = device.id

\* C7: once Node::start has finished, the listener's polling loop eventually
\* terminates.
C7_ListenerStops == (start_pc = "done") ~> (mdns_pc = "dead")

ErrorKinds == {"Error", "ResolveErr"}

Count(log, kinds) == Cardinality({i \in 1..Len(log) : log[i].kind \in kinds})

\* C8: processing an Error or a failed Discovery ends neither the consumer
\* nor the polling thread, and every Resolved received, also after an error,
\* is pushed on the collection.
C8_ErrorsDoNotStop ==
    /\ [][Processes(ErrorKinds)
            => /\ start_pc' = "select"
               /\ mdns_pc' = mdns_pc
               /\ registries' = registries]_vars
    /\ [](Len(registries) = Count(processed, {"Resolved"}))

C8_Witness ==
    /\ \E i, j \in 1..Len(processed) :
          /\ i < j
          /\ processed[i].kind \in ErrorKinds
          /\ processed[j].kind = "Resolved"
          /\ Last(registries) = Parse(processed[j])
    /\ start_pc = "select"
    /\ mdns_pc \in {"poll", "sleep"}

OfName(log, n) == SelectSeq(log, LAMBDA e : e.name = n)

IsPrefix(s, t) == Len(s) <= Len(t) /\ s = SubSeq(t, 1, Len(s))

\* C9: for each service name, the events processed are, in order, the first
\* events the listener emitted for that name.
C9_PerNameOrder ==
    \A n \in Names \cup {NoName} : IsPrefix(OfName(processed, n), OfName(emitted, n))

C9_Witness ==
    /\ Len(processed) >= 2
    /\ processed[1].name \in Names
    /\ processed[2].name = processed[1].name
    /\ processed[1] # processed[2]
    /\ chan # <<>>

Populated ==
    /\ build_pc = "built"
    /\ nodes = {node}
    /\ devices = {device}
    /\ receivers = {receiver}

\* C10: the listener is started, and any event emitted or processed, only
\* with the model holding exactly the one Node, its Device and its Receiver.
C10_PopulatedBeforeDiscovery ==
    (mdns_pc # "unspawned" \/ start_pc # "idle" \/ emitted # <<>> \/ processed # <<>>)
        => Populated

C10_Witness ==
    /\ Populated
    /\ emitted # <<>>
    /\ processed # <<>>

\* C11: building the Device sets its id and version and leaves the model as it
\* was; the Device the model holds after the insert is the built one, with the
\* id and version it got at build time, and stays so.
C11_BuildLeavesModel ==
    /\ [][(device' # device)
            => (device'.id \in Uuids /\ device'.version \in Times
                /\ UNCHANGED <<nodes, devices, receivers>>)]_vars
    /\ [](\A d \in devices : d = device)
    /\ [][\A d \in devices : d \in devices']_vars

C11_Witness ==
    /\ build_pc = "built"
    /\ start_pc = "done"
    /\ \E d \in devices : d.id = device.id /\ d.version = device.version

\* C12: processing a Lost for a candidate that is in the collection and is
\* not the active one removes it from the collection, leaves the active
\* candidate as it was and publishes nothing.
C12_LostOtherRemoved ==
    [][(/\ Processes({"Lost"})
        /\ Active.name # Last(processed').name
        /\ \E i \in SomeIdx(registries) : registries[i].name = Last(processed').name)
         => /\ \A i \in SomeIdx(registries') :
                  registries'[i].name # Last(processed').name
            /\ Active' = Active
            /\ published' = published]_vars

ParseAll(strings) == [i \in 1..Len(strings) |-> UuidParse(strings[i])]

\* C15: the DeviceJson read back from a serialized Device gives the Device's
\* id, version string, label, type, node_id and its senders and receivers,
\* element for element.
C15_JsonRoundTrip ==
    b_pc = "parsed"
        => /\ UuidParse(parsed.id) = built.id
           /\ parsed.version = TaiToString(built.version)
           /\ parsed.label = built.label
           /\ parsed.type_ = built.type_
           /\ UuidParse(parsed.node_id) = built.node_id
           /\ ParseAll(parsed.senders) = built.senders
           /\ ParseAll(parsed.receivers) = built.receivers

C15_Witness ==
    /\ b_pc = "parsed"
    /\ Len(built.senders) = 2
    /\ built.senders[1] # built.senders[2]
    /\ Len(built.receivers) = 1
    /\ built.id # built.node_id
    /\ parsed.senders = MapToString(built.senders)

\* C16: new(node, type), any calls of label and build give a Device with the
\* node's id as node_id, the type given, the last label given or the empty
\* string when none was, and empty senders and receivers.
C16_BuilderFields ==
    (b_pc = "device" /\ b_node # NoResource)
        => /\ built.node_id = b_node.id
           /\ built.type_ = b_type
           /\ built.label = (IF b_labels = <<>> THEN "" ELSE Last(b_labels))
           /\ built.senders = <<>>
           /\ built.receivers = <<>>
           /\ built.id \in Uuids
           /\ built.version \in Times

C16_Witness ==
    /\ b_pc = "device"
    /\ b_node # NoResource
    /\ Len(b_labels) = 2
    /\ b_labels[1] # b_labels[2]
    /\ built.label = b_labels[2]

\* C17: registries changes only in the step that processes a Discovery with
\* an Ok result, and then by one entry added to what it held; every other
\* step leaves it as it was, so its size is the number of Ok discoveries
\* processed so far.
C17_OnlyOkDiscoveryPushes ==
    /\ [][IF Processes({"Resolved"})
          THEN /\ Len(registries') = Len(registries) + 1
               /\ SubSeq(registries', 1, Len(registries)) = registries
          ELSE registries' = registries]_vars
    /\ [](Len(registries) = Count(processed, {"Resolved"}))

C17_Witness ==
    /\ Len(processed) = 3
    /\ Count(processed, {"Resolved"}) = 1
    /\ Count(processed, {"Lost"}) = 1
    /\ Count(processed, {"ResolveErr"}) = 1
    /\ Len(registries) = 1

\* C18: start is done exactly when one branch of its select has completed;
\* the consumer's branch completes only with the sender dropped (the mdns
\* thread gone) and the queue drained, never while the thread is alive; and
\* whichever branch completed, also a failed server, start returned Ok(()).
C18_SelectEnds ==
    /\ (start_pc = "done") <=> (ended \in {"consumer", "server"})
    /\ (start_pc = "done") => (start_result = "Ok")
    /\ (start_pc # "done") => (start_result = "none")
    /\ (ended = "consumer") => (mdns_pc = "dead" /\ processed = emitted)
    /\ (mdns_pc = "dead" /\ start_pc = "select") => (chan = <<>> /\ ENABLED ConsumerEnds)

C18_Witness ==
    /\ ended = "consumer"
    /\ mdns_pc = "dead"
    /\ start_result = "Ok"

====
